---------------------------- MODULE Spec2Model ----------------------------
(***************************************************************************)
(* click-to-call-mac (src/src/main.rs): a tel: URI handler that keeps one  *)
(* primary instance per user session.  Processes decide their role by      *)
(* probing a unix socket, secondaries forward their URI to the primary,    *)
(* the primary's listener thread routes forwarded URIs to a direct call or *)
(* to the UI, and calls are HTTP GETs issued from background threads.      *)
(*                                                                         *)
(* Strings are sequences of one-character strings; the fixed chunks of a   *)
(* format string are kept as single elements.                              *)
(***************************************************************************)
EXTENDS Integers, Sequences, FiniteSets, TLC

(***************************************************************************)
(* Bounds of the model.                                                    *)
(***************************************************************************)
\* processes of one user session that may be launched
NProc == 2
\* call threads that have not finished
MaxAttempts == 2
\* characters after the tel: prefix of the URIs fed to the normalizer
MaxLen == 2
\* commands waiting in the UI context's queue when the user clicks again
MaxQueue == 1
\* connections of other programs waiting in the listener's backlog
MaxBacklog == 1
\* connections that may wait at a listener when their order is looked at
MaxPending == 2

Procs == 1..NProc

(***************************************************************************)
(* String helpers (std::str).                                              *)
(***************************************************************************)
TelPrefix == <<"t", "e", "l", ":">>

StartsWith(s, pre) ==
    /\ Len(s) >= Len(pre)
    /\ SubSeq(s, 1, Len(pre)) = pre

\* str::split_at(4).1
SplitAt4Tail(s) == SubSeq(s, 5, Len(s))

\* str::replace(c, "") for a one-character pattern
RECURSIVE Replace(_, _)
Replace(s, c) ==
    IF s = <<>> THEN <<>>
    ELSE IF Head(s) = c THEN Replace(Tail(s), c)
         ELSE <<Head(s)>> \o Replace(Tail(s), c)

ToLowerChar(c) ==
    CASE c = "T" -> "t"
      [] c = "E" -> "e"
      [] c = "L" -> "l"
      [] OTHER -> c

\* str::to_lowercase
ToLowercase(s) == [i \in 1..Len(s) |-> ToLowerChar(s[i])]

\* a listener that leaves closing parentheses in
ListenerNormalizeKeepsParen(message) ==
    Replace(Replace(Replace(SplitAt4Tail(message), "-"), " "), "(")
\* listener thread: raw_number, then clean_number by four chained replaces
ListenerNormalize(message) ==
    Replace(Replace(Replace(Replace(SplitAt4Tail(message), "-"), " "), "("), ")")

\* a handler that takes the plus sign out as well
UiNormalizeDropsPlus(url) ==
    Replace(Replace(Replace(Replace(Replace(SplitAt4Tail(url), "-"), " "), "("), ")"), "+")
\* PROCESS_TEL_URL handler: raw_number, then clean_number
UiNormalize(url) ==
    Replace(Replace(Replace(Replace(SplitAt4Tail(url), "-"), " "), "("), ")")

\* main: raw_number, then clean_number of a tel: argument
MainNormalize(a) ==
    Replace(Replace(Replace(Replace(SplitAt4Tail(a), "-"), " "), "("), ")")

\* main: the argument scan; the first argument whose lowercase form starts
\* with tel: decides has_tel_url and tel_number
RECURSIVE ScanArgs(_)
ScanArgs(args) ==
    IF args = <<>> THEN [has_tel_url |-> FALSE, tel_number |-> <<>>]
    ELSE IF StartsWith(ToLowercase(Head(args)), TelPrefix)
         THEN [has_tel_url |-> TRUE, tel_number |-> MainNormalize(Head(args))]
         ELSE ScanArgs(Tail(args))

\* a forward that leaves the tel: prefix out
ForwardUrlBare(number) == number
\* main: the bytes written to the primary, format!("tel:{}", tel_number)
ForwardUrl(number) == TelPrefix \o number

(***************************************************************************)
(* The click-to-call URL (both builders).                                  *)
(***************************************************************************)
HttpScheme == <<"h", "t", "t", "p", ":", "/", "/">>
HttpsScheme == <<"h", "t", "t", "p", "s", ":", "/", "/">>

AutoAnswerStr(auto_answer) == IF auto_answer THEN <<"true">> ELSE <<"false">>

DomainWithScheme(domain) ==
    IF StartsWith(domain, HttpScheme) \/ StartsWith(domain, HttpsScheme)
    THEN domain
    ELSE HttpsScheme \o domain

\* format!("{}/app/...?src_cid_name={}&...&key={}", a1, ..., a9)
FormatUrl(a1, a2, a3, a4, a5, a6, a7, a8, a9) ==
    a1 \o <<"/app/click_to_call/click_to_call.php">>
       \o <<"?src_cid_name=">> \o a2
       \o <<"&src_cid_number=">> \o a3
       \o <<"&dest_cid_name=">> \o a4
       \o <<"&dest_cid_number=">> \o a5
       \o <<"&src=">> \o a6
       \o <<"&dest=">> \o a7
       \o <<"&auto_answer=">> \o a8
       \o <<"&rec=">> \o <<"&ringback=us-ring">>
       \o <<"&key=">> \o a9

\* a builder that puts the number in src and the extension in dest
MakeCallUrlSrcNumber(domain, extension, key, phone_number, auto_answer) ==
    FormatUrl(DomainWithScheme(domain), phone_number, phone_number,
              phone_number, phone_number, phone_number, extension,
              AutoAnswerStr(auto_answer), key)
\* url_str of the MAKE_CALL thread
MakeCallUrl(domain, extension, key, phone_number, auto_answer) ==
    FormatUrl(DomainWithScheme(domain), phone_number, phone_number,
              phone_number, phone_number, extension, phone_number,
              AutoAnswerStr(auto_answer), key)

\* url_str of make_direct_call
DirectCallUrl(domain, extension, key, phone_number, auto_answer) ==
    FormatUrl(DomainWithScheme(domain), phone_number, phone_number,
              phone_number, phone_number, extension, phone_number,
              AutoAnswerStr(auto_answer), key)

(***************************************************************************)
(* Values the bounded runs draw from.                                      *)
(***************************************************************************)
Tel5 == TelPrefix \o <<"5">>
TelDash == TelPrefix \o <<"-">>
\* argument lists (argv[1..]) a process may be launched with
ArgLists == {<<>>, <<Tel5>>, <<TelDash>>}

\* "ping-{secs}" of try_connect_to_primary
Ping == <<"p", "i", "n", "g", "-", "0">>

NoStatus == [text |-> "", arg |-> <<>>]
Status(text, arg) == [text |-> text, arg |-> arg]

\* AppState::default()
DefaultState ==
    [domain |-> <<>>, extension |-> <<>>, key |-> <<>>, auto_answer |-> FALSE,
     phone_number |-> <<>>, status_message |-> NoStatus]

SettingsFields == {"domain", "extension", "key", "auto_answer"}

\* data.clone() as the listener thread uses it: domain, extension, key and
\* auto_answer
ListenerClone(state) == [f \in SettingsFields |-> state[f]]

(***************************************************************************)
(* preferences.json.  The text is a sequence of JSON tokens: the            *)
(* punctuation, the literals true and false, and inside a string one        *)
(* element per character.                                                  *)
(***************************************************************************)
Quote == "\""
Backslash == "\\"
Newline == "\n"

\* serde_json writes '"', '\' and the control characters of a string escaped
EscapeQuoteOnly(c) == IF c = Quote THEN <<Backslash, Quote>> ELSE <<c>>
EscapeChar(c) ==
    CASE c = Quote -> <<Backslash, Quote>>
      [] c = Backslash -> <<Backslash, Backslash>>
      [] c = Newline -> <<Backslash, "n">>
      [] OTHER -> <<c>>

RECURSIVE Escape(_)
Escape(str) ==
    IF str = <<>> THEN <<>> ELSE EscapeChar(Head(str)) \o Escape(Tail(str))

JsonString(str) == <<Quote>> \o Escape(str) \o <<Quote>>
JsonBool(b) == IF b THEN <<"true">> ELSE <<"false">>

\* serde_json::to_string(state): the fields in the struct's order;
\* phone_number and status_message are skipped
ToJson(state) ==
    <<"{">> \o JsonString(<<"domain">>) \o <<":">> \o JsonString(state.domain)
    \o <<",">> \o JsonString(<<"extension">>) \o <<":">> \o JsonString(state.extension)
    \o <<",">> \o JsonString(<<"key">>) \o <<":">> \o JsonString(state.key)
    \o <<",">> \o JsonString(<<"auto_answer">>) \o <<":">> \o JsonBool(state.auto_answer)
    \o <<"}">>

ParseError == [ok |-> FALSE, val |-> <<>>, next |-> 0]

\* the element of a set of one element (what a parser has read is bound
\* once, as the element of such a set, before it is used)
Only(S) == CHOOSE x \in S : TRUE

\* the character an escape stands for, if it is an escape of JSON
Unescape(c) ==
    CASE c = Quote -> <<Quote>>
      [] c = Backslash -> <<Backslash>>
      [] c = "n" -> <<Newline>>
      [] OTHER -> <<>>

\* the characters of a JSON string up to its closing quote, from position i
RECURSIVE ReadChars(_, _, _)
ReadChars(text, i, acc) ==
    IF i > Len(text) THEN ParseError
    ELSE IF text[i] = Quote THEN [ok |-> TRUE, val |-> acc, next |-> i + 1]
    ELSE IF text[i] = Newline THEN ParseError
    ELSE IF text[i] = Backslash
         THEN IF i + 1 > Len(text) \/ Unescape(text[i + 1]) = <<>>
              THEN ParseError
              ELSE ReadChars(text, i + 2, acc \o Unescape(text[i + 1]))
    ELSE ReadChars(text, i + 1, Append(acc, text[i]))

\* the values of JSON the file may hold: strings and booleans
JsonStr(chars) == [type |-> "string", chars |-> chars, bool |-> FALSE]
JsonBoolean(b) == [type |-> "bool", chars |-> <<>>, bool |-> b]

\* a JSON value at position i
ReadValue(text, i) ==
    IF i > Len(text) THEN ParseError
    ELSE IF text[i] = Quote
         THEN LET str == ReadChars(text, i + 1, <<>>) IN
              IF str.ok THEN [str EXCEPT !.val = JsonStr(str.val)] ELSE ParseError
    ELSE IF text[i] \in {"true", "false"}
         THEN [ok |-> TRUE, val |-> JsonBoolean(text[i] = "true"), next |-> i + 1]
    ELSE ParseError

\* the members of a JSON object from position i, as <<name, value>> pairs;
\* nothing may follow the closing brace
RECURSIVE ReadMembers(_, _, _)
\* after the member's name and value: a comma and the next member, or the
\* closing brace
AfterMember(text, name, value, acc) ==
    IF ~value.ok \/ value.next > Len(text) THEN ParseError
    ELSE IF text[value.next] = ","
         THEN Only({ReadMembers(text, j, members) :
                       j \in {value.next + 1},
                       members \in {Append(acc, <<name.val, value.val>>)}})
    ELSE IF text[value.next] = "}" /\ value.next = Len(text)
         THEN [ok |-> TRUE, val |-> Append(acc, <<name.val, value.val>>),
               next |-> value.next + 1]
    ELSE ParseError

\* after the member's name: a colon and the value
AfterName(text, name, acc) ==
    IF ~name.ok \/ name.next > Len(text) \/ text[name.next] # ":"
    THEN ParseError
    ELSE Only({AfterMember(text, name, value, acc) :
                  value \in {ReadValue(text, name.next + 1)}})

ReadMembers(text, i, acc) ==
    IF i > Len(text) \/ text[i] # Quote THEN ParseError
    ELSE Only({AfterName(text, name, acc) :
                  name \in {ReadChars(text, i + 1, <<>>)}})

ReadObject(text) ==
    IF Len(text) < 2 \/ text[1] # "{" THEN ParseError
    ELSE IF text = <<"{", "}">> THEN [ok |-> TRUE, val |-> <<>>, next |-> 3]
    ELSE ReadMembers(text, 2, <<>>)

\* the values the members give to a field
ValuesOf(members, f) ==
    {members[k][2] : k \in {j \in 1..Len(members) : members[j][1] = <<f>>}}
TimesGiven(members, f) ==
    Cardinality({j \in 1..Len(members) : members[j][1] = <<f>>})

\* the derived Deserialize: every field that is not skipped is given once
\* and has its type; members of other names are ignored
FieldsGiven(members) ==
    /\ \A f \in SettingsFields : TimesGiven(members, f) = 1
    /\ \A f \in {"domain", "extension", "key"} :
          \A v \in ValuesOf(members, f) : v.type = "string"
    /\ \A v \in ValuesOf(members, "auto_answer") : v.type = "bool"

TheValue(members, f) == CHOOSE v \in ValuesOf(members, f) : TRUE

\* the AppState of an object that was read, if it is one
FromObject(object) ==
    IF object.ok /\ FieldsGiven(object.val)
    THEN <<[DefaultState EXCEPT
              !.domain = TheValue(object.val, "domain").chars,
              !.extension = TheValue(object.val, "extension").chars,
              !.key = TheValue(object.val, "key").chars,
              !.auto_answer = TheValue(object.val, "auto_answer").bool]>>
    ELSE <<>>

\* serde_json::from_str::<AppState>(content)
FromJson(content) ==
    Only({FromObject(object) : object \in {ReadObject(content)}})

\* bytes of a file that are no UTF-8
NotUtf8 == "xFF"

\* std::fs::read_to_string(prefs_path): fails when there is no file or its
\* bytes are no UTF-8
ReadToString(file) ==
    IF file = <<>> THEN <<>>
    ELSE IF \E k \in 1..Len(file[1]) : file[1][k] = NotUtf8 THEN <<>>
    ELSE file

\* a load that reports a file it cannot parse in the status line
LoadPreferencesReports(file) ==
    IF ReadToString(file) = <<>> THEN DefaultState
    ELSE Only({IF parsed = <<>>
               THEN [DefaultState EXCEPT !.status_message = Status("Error: ", <<>>)]
               ELSE parsed[1] : parsed \in {FromJson(file[1])}})
\* load_preferences(): the default state unless the file reads and parses
LoadPreferences(file) ==
    IF ReadToString(file) = <<>> THEN DefaultState
    ELSE Only({IF parsed = <<>> THEN DefaultState ELSE parsed[1] :
                  parsed \in {FromJson(file[1])}})

\* the preferences.json of a user who has saved a domain and an extension
ConfiguredJson ==
    ToJson([DefaultState EXCEPT !.domain = <<"d">>, !.extension = <<"1">>,
                                !.key = <<"k">>, !.auto_answer = TRUE])

VARIABLES
    sockFile,     \* the file at get_socket_path(): <<>> or <<owner>>; owner 0
                  \* is a process of an earlier session that is gone
    prefsFile,    \* preferences.json: <<>> (absent) or <<content>>
    pc,           \* main's position, per process
    args,         \* env::args()[1..], per process
    is_primary, has_tel_url, tel_number,   \* main's locals
    peer,         \* the listener a process's open UnixStream is connected to
    backlog,      \* per listener: connections not yet accepted, in order
    lst,          \* the listener thread: none, spawned, listening, ended
    app_state,    \* the listener thread's clone of the UI state (the four
                  \* fields the thread reads)
    data,         \* the AppState the UI owns
    delegate,     \* Delegate {auto_call, phone_number, is_primary}
    timer,        \* window_added's thread has yet to submit APP_INITIALIZED
    queue,        \* commands and idle callbacks the UI context has to handle
    attempts,     \* the call threads that have not finished, in spawn order
    sent,         \* per process: the payloads main wrote to a primary
    probeLive,    \* per process: was a listener live on the path when
                  \* try_connect_to_primary decided
    fnIn, fnOut   \* input and results of the pure functions (SpecNorm, SpecUrl)

mainVars == <<pc, args, is_primary, has_tel_url, tel_number, peer, sent, probeLive>>
uiVars == <<data, delegate, timer, queue>>
lstVars == <<lst, app_state>>
fnVars == <<fnIn, fnOut>>
vars == <<sockFile, prefsFile, mainVars, backlog, lstVars, uiVars, attempts, fnVars>>

NoDelegate == [auto_call |-> FALSE, phone_number |-> <<>>, is_primary |-> FALSE]

\* no process of the session has been started yet
NoneStarted ==
    /\ pc = [p \in Procs |-> "off"]
    /\ args = [p \in Procs |-> <<>>]
    /\ is_primary = [p \in Procs |-> FALSE]
    /\ has_tel_url = [p \in Procs |-> FALSE]
    /\ tel_number = [p \in Procs |-> <<>>]
    /\ peer = [p \in Procs |-> 0]
    /\ backlog = [p \in Procs |-> <<>>]
    /\ lst = [p \in Procs |-> "none"]
    /\ app_state = [p \in Procs |-> ListenerClone(DefaultState)]
    /\ data = [p \in Procs |-> DefaultState]
    /\ delegate = [p \in Procs |-> NoDelegate]
    /\ timer = [p \in Procs |-> FALSE]
    /\ queue = [p \in Procs |-> <<>>]
    /\ attempts = <<>>
    /\ sent = [p \in Procs |-> <<>>]
    /\ probeLive = [p \in Procs |-> <<>>]

Init ==
    /\ sockFile \in {<<>>, <<0>>}
    /\ prefsFile \in {<<>>, <<ConfiguredJson>>}
    /\ NoneStarted
    /\ fnIn = <<>>
    /\ fnOut = <<>>

(***************************************************************************)
(* The unix socket.                                                        *)
(***************************************************************************)
Listening(q) == q \in Procs /\ lst[q] = "listening"

\* a live process is listening on the file at the socket path
LiveListener == sockFile # <<>> /\ Listening(sockFile[1])

\* UnixStream::connect(&socket_path) succeeds
CanConnect == LiveListener

\* the stream p opened to q is still connected: q has neither dropped it nor
\* gone away
StreamOpen(p, q) ==
    /\ q \in Procs
    /\ \E i \in 1..Len(backlog[q]) : backlog[q][i].from = p /\ ~backlog[q][i].eof

Connect(p, q) ==
    Append(backlog[q], [from |-> p, data |-> <<>>, eof |-> FALSE])

\* write_all(payload), then the stream is dropped
WriteAndClose(p, q, payload) ==
    [i \in 1..Len(backlog[q]) |->
        IF backlog[q][i].from = p /\ ~backlog[q][i].eof
        THEN [from |-> p, data |-> payload, eof |-> TRUE]
        ELSE backlog[q][i]]

(***************************************************************************)
(* Call threads.                                                           *)
(***************************************************************************)
\* thread::spawn of a call attempt with its own copies of the five values
NewAttempt(p, origin, domain, extension, key, phone_number, auto_answer) ==
    [proc |-> p, origin |-> origin, domain |-> domain, extension |-> extension,
     key |-> key, phone_number |-> phone_number, auto_answer |-> auto_answer,
     alive |-> TRUE]

\* make_direct_call: spawns the thread whatever the five values are
MakeDirectCall(p, origin, domain, extension, key, phone_number, auto_answer) ==
    Append(attempts,
           NewAttempt(p, origin, domain, extension, key, phone_number, auto_answer))

\* the process ends: its threads end with it
KillThreads(p) ==
    [i \in 1..Len(attempts) |->
        IF attempts[i].proc = p
        THEN [attempts[i] EXCEPT !.alive = FALSE]
        ELSE attempts[i]]

(***************************************************************************)
(* main.                                                                   *)
(***************************************************************************)
\* a process of the session is started with an argument list
Launch(p, a) ==
    /\ pc[p] = "off"
    /\ \A r \in Procs : r < p => pc[r] # "off"
    /\ a \in ArgLists
    /\ pc' = [pc EXCEPT ![p] = "probe_exists"]
    /\ args' = [args EXCEPT ![p] = a]
    /\ UNCHANGED <<sockFile, prefsFile, is_primary, has_tel_url, tel_number,
                   peer, sent, probeLive, backlog, lstVars, uiVars, attempts,
                   fnVars>>

\* try_connect_to_primary returns: is_primary is set, the arguments are
\* scanned, and main goes on to forward, to load the preferences or to the UI
Decide(p, secondary) ==
    LET scan == ScanArgs(args[p]) IN
    /\ is_primary' = [is_primary EXCEPT ![p] = ~secondary]
    /\ has_tel_url' = [has_tel_url EXCEPT ![p] = scan.has_tel_url]
    /\ tel_number' = [tel_number EXCEPT ![p] = scan.tel_number]
    /\ probeLive' = [probeLive EXCEPT ![p] = <<LiveListener>>]
    /\ pc' = [pc EXCEPT ![p] =
                IF scan.has_tel_url
                THEN IF secondary THEN "fwd_connect" ELSE "load"
                ELSE "launch"]

\* try_connect_to_primary: socket_path.exists()
ProbeExists(p) ==
    /\ pc[p] = "probe_exists"
    /\ IF sockFile = <<>>
       THEN Decide(p, FALSE)
       ELSE /\ pc' = [pc EXCEPT ![p] = "probe_connect"]
            /\ UNCHANGED <<is_primary, has_tel_url, tel_number, probeLive>>
    /\ UNCHANGED <<sockFile, prefsFile, args, peer, sent, backlog, lstVars,
                   uiVars, attempts, fnVars>>

\* try_connect_to_primary: UnixStream::connect(socket_path)
ProbeConnect(p) ==
    /\ pc[p] = "probe_connect"
    /\ IF CanConnect
       THEN /\ backlog' = [backlog EXCEPT ![sockFile[1]] = Connect(p, sockFile[1])]
            /\ peer' = [peer EXCEPT ![p] = sockFile[1]]
            /\ pc' = [pc EXCEPT ![p] = "probe_write"]
       ELSE /\ pc' = [pc EXCEPT ![p] = "probe_remove"]
            /\ UNCHANGED <<backlog, peer>>
    /\ UNCHANGED <<sockFile, prefsFile, args, is_primary, has_tel_url,
                   tel_number, sent, probeLive, lstVars, uiVars, attempts,
                   fnVars>>

\* try_connect_to_primary: stream.write_all(ping); true when it succeeds
ProbeWrite(p) ==
    /\ pc[p] = "probe_write"
    /\ IF StreamOpen(p, peer[p])
       THEN /\ backlog' = [backlog EXCEPT ![peer[p]] = WriteAndClose(p, peer[p], Ping)]
            /\ Decide(p, TRUE)
       ELSE /\ pc' = [pc EXCEPT ![p] = "probe_remove"]
            /\ UNCHANGED <<backlog, is_primary, has_tel_url, tel_number, probeLive>>
    /\ UNCHANGED <<sockFile, prefsFile, args, peer, sent, lstVars, uiVars,
                   attempts, fnVars>>

\* fs::remove_file(socket_path): whatever is at the path goes
RemoveFile(file) == <<>>

\* try_connect_to_primary: the socket is taken to be stale and removed; false
ProbeRemove(p) ==
    /\ pc[p] = "probe_remove"
    /\ sockFile' = RemoveFile(sockFile)
    /\ Decide(p, FALSE)
    /\ UNCHANGED <<prefsFile, args, peer, sent, backlog, lstVars, uiVars,
                   attempts, fnVars>>

\* a forward after which main goes on instead of returning
ForwardedGoesOn == "load"
\* main: "Successfully sent to primary instance, exit this one": return Ok(())
Forwarded == "exited"

\* main: UnixStream::connect before forwarding (the first try and the retry)
ForwardConnect(p, here, onOk, onErr) ==
    /\ pc[p] = here
    /\ IF CanConnect
       THEN /\ backlog' = [backlog EXCEPT ![sockFile[1]] = Connect(p, sockFile[1])]
            /\ peer' = [peer EXCEPT ![p] = sockFile[1]]
            /\ pc' = [pc EXCEPT ![p] = onOk]
       ELSE /\ pc' = [pc EXCEPT ![p] = onErr]
            /\ UNCHANGED <<backlog, peer>>
    /\ UNCHANGED <<sockFile, prefsFile, args, is_primary, has_tel_url,
                   tel_number, sent, probeLive, lstVars, uiVars, attempts,
                   fnVars>>

\* main: stream.write_all(url); on success main returns Ok(()) and the
\* process is gone, otherwise main goes on to load_preferences
ForwardWrite(p, here) ==
    /\ pc[p] = here
    /\ IF StreamOpen(p, peer[p])
       THEN /\ backlog' = [backlog EXCEPT ![peer[p]] =
                             WriteAndClose(p, peer[p], ForwardUrl(tel_number[p]))]
            /\ sent' = [sent EXCEPT ![p] = Append(@, ForwardUrl(tel_number[p]))]
            /\ pc' = [pc EXCEPT ![p] = Forwarded]
       ELSE /\ pc' = [pc EXCEPT ![p] = "load"]
            /\ UNCHANGED <<backlog, sent>>
    /\ UNCHANGED <<sockFile, prefsFile, args, is_primary, has_tel_url,
                   tel_number, peer, probeLive, lstVars, uiVars, attempts,
                   fnVars>>

FwdConnect(p) == ForwardConnect(p, "fwd_connect", "fwd_write", "spawn")
FwdWrite(p) == ForwardWrite(p, "fwd_write")
\* a retry that spawns again when its connect fails
RetryConnectSpawnsAgain(p) == ForwardConnect(p, "retry_connect", "retry_write", "spawn")
RetryConnect(p) == ForwardConnect(p, "retry_connect", "retry_write", "load")
RetryWrite(p) == ForwardWrite(p, "retry_write")

\* main: Command::new("open").arg("-g").arg(current_exe).spawn(), its result
\* ignored, then the one second sleep
SpawnInstance(p) ==
    /\ pc[p] = "spawn"
    /\ \/ \E q \in Procs :
            /\ pc[q] = "off"
            /\ \A r \in Procs : r < q => pc[r] # "off"
            /\ pc' = [pc EXCEPT ![p] = "retry_connect", ![q] = "probe_exists"]
            /\ args' = [args EXCEPT ![q] = <<>>]
       \/ /\ pc' = [pc EXCEPT ![p] = "retry_connect"]
          /\ UNCHANGED args
    /\ UNCHANGED <<sockFile, prefsFile, is_primary, has_tel_url, tel_number,
                   peer, sent, probeLive, backlog, lstVars, uiVars, attempts,
                   fnVars>>

\* main: "Process the tel: URL directly": with domain and extension in the
\* preferences the call is made and main returns, otherwise the UI is shown
LoadForTel(p) ==
    LET st == LoadPreferences(prefsFile) IN
    /\ pc[p] = "load"
    /\ IF st.domain # <<>> /\ st.extension # <<>>
       THEN /\ Len(attempts) < MaxAttempts
            /\ attempts' = MakeDirectCall(p, "main", st.domain, st.extension,
                                          st.key, tel_number[p], st.auto_answer)
            /\ pc' = [pc EXCEPT ![p] = "return"]
       ELSE /\ pc' = [pc EXCEPT ![p] = "launch"]
            /\ UNCHANGED attempts
    /\ UNCHANGED <<sockFile, prefsFile, args, is_primary, has_tel_url,
                   tel_number, peer, sent, probeLive, backlog, lstVars, uiVars,
                   fnVars>>

\* main returns Ok(()) after make_direct_call: the process ends
MainReturn(p) ==
    /\ pc[p] = "return"
    /\ pc' = [pc EXCEPT ![p] = "exited"]
    /\ attempts' = KillThreads(p)
    /\ UNCHANGED <<sockFile, prefsFile, args, is_primary, has_tel_url,
                   tel_number, peer, sent, probeLive, backlog, lstVars, uiVars,
                   fnVars>>

\* main: the window, the initial state, the delegate, launcher.launch; with
\* the window added, window_added starts the thread that will submit
\* APP_INITIALIZED
LaunchUi(p) ==
    /\ pc[p] = "launch"
    /\ pc' = [pc EXCEPT ![p] = "ui"]
    /\ data' = [data EXCEPT ![p] = LoadPreferences(prefsFile)]
    /\ delegate' = [delegate EXCEPT ![p] =
                      [auto_call |-> FALSE, phone_number |-> <<>>,
                       is_primary |-> is_primary[p]]]
    /\ timer' = [timer EXCEPT ![p] = TRUE]
    /\ UNCHANGED <<sockFile, prefsFile, args, is_primary, has_tel_url,
                   tel_number, peer, sent, probeLive, backlog, lstVars, queue,
                   attempts, fnVars>>

\* the window is closed (or the process is killed): launch returns, main
\* returns, every thread, the listener's socket and the process's memory go;
\* the socket file stays
Quit(p) ==
    /\ pc[p] = "ui"
    /\ pc' = [pc EXCEPT ![p] = "exited"]
    /\ lst' = [lst EXCEPT ![p] = IF @ = "none" THEN "none" ELSE "ended"]
    /\ backlog' = [backlog EXCEPT ![p] = <<>>]
    /\ timer' = [timer EXCEPT ![p] = FALSE]
    /\ queue' = [queue EXCEPT ![p] = <<>>]
    /\ data' = [data EXCEPT ![p] = DefaultState]
    /\ app_state' = [app_state EXCEPT ![p] = ListenerClone(DefaultState)]
    /\ delegate' = [delegate EXCEPT ![p] = NoDelegate]
    /\ attempts' = KillThreads(p)
    /\ UNCHANGED <<sockFile, prefsFile, args, is_primary, has_tel_url,
                   tel_number, peer, sent, probeLive, fnVars>>

(***************************************************************************)
(* The delegate: commands handled in the UI context, one at a time.        *)
(***************************************************************************)
\* what the UI context is handed: a command (with the url of PROCESS_TEL_URL)
\* or an idle callback with the result string it will write; outcome notes
\* which answer of the GET the result string was made for
Cmd(name) == [cmd |-> name, url |-> <<>>, result |-> NoStatus, outcome |-> "none"]
ProcessTelUrl(url) ==
    [cmd |-> "PROCESS_TEL_URL", url |-> url, result |-> NoStatus, outcome |-> "none"]
IdleCallback(outcome, result) ==
    [cmd |-> "idle", url |-> <<>>, result |-> result, outcome |-> outcome]

NextCmd(p, name) ==
    /\ pc[p] = "ui"
    /\ queue[p] # <<>>
    /\ Head(queue[p]).cmd = name

\* a guard that leaves the phone number out
MissingDataNoPhone(d) == d.domain = <<>> \/ d.extension = <<>>
\* MAKE_CALL's guard: "Make sure we have the necessary data"
MissingData(d) ==
    d.domain = <<>> \/ d.extension = <<>> \/ d.phone_number = <<>>

\* Delegate::command, cmd.is(MAKE_CALL)
HandleMakeCall(p) ==
    /\ NextCmd(p, "MAKE_CALL")
    /\ queue' = [queue EXCEPT ![p] = Tail(@)]
    /\ IF MissingData(data[p])
       THEN /\ data' = [data EXCEPT ![p].status_message =
                          Status("Error: Missing domain, extension or phone number", <<>>)]
            /\ UNCHANGED attempts
       ELSE /\ Len(attempts) < MaxAttempts
            /\ data' = [data EXCEPT ![p].status_message =
                          Status("Initiating call to {}...", data[p].phone_number)]
            /\ attempts' = Append(attempts,
                  NewAttempt(p, "ui", data[p].domain, data[p].extension,
                             data[p].key, data[p].phone_number,
                             data[p].auto_answer))
    /\ UNCHANGED <<sockFile, prefsFile, mainVars, backlog, lstVars, delegate,
                   timer, fnVars>>

\* a delegate that starts no listener thread
StartsListenerNever(d) == FALSE
\* APP_INITIALIZED: "if self.is_primary", the listener thread is started
StartsListener(d) == d.is_primary

\* Delegate::command, cmd.is(APP_INITIALIZED): the auto-call, then the
\* listener thread of a primary, which gets a clone of the state
HandleAppInitialized(p) ==
    LET autoCall == /\ delegate[p].auto_call
                    /\ delegate[p].phone_number # <<>>
                    /\ data[p].domain # <<>>
                    /\ data[p].extension # <<>>
        d1 == IF autoCall
              THEN [data[p] EXCEPT
                      !.phone_number = delegate[p].phone_number,
                      !.status_message = Status("Received tel: link. Calling: {}",
                                                delegate[p].phone_number)]
              ELSE data[p]
    IN
    /\ NextCmd(p, "APP_INITIALIZED")
    /\ data' = [data EXCEPT ![p] = d1]
    /\ queue' = [queue EXCEPT ![p] =
                   IF autoCall THEN Append(Tail(@), Cmd("MAKE_CALL")) ELSE Tail(@)]
    /\ delegate' = [delegate EXCEPT ![p].auto_call = IF autoCall THEN FALSE ELSE @]
    /\ IF StartsListener(delegate[p])
       THEN /\ lst' = [lst EXCEPT ![p] = "spawned"]
            /\ app_state' = [app_state EXCEPT ![p] = ListenerClone(d1)]
       ELSE UNCHANGED <<lst, app_state>>
    /\ UNCHANGED <<sockFile, prefsFile, mainVars, backlog, timer, attempts,
                   fnVars>>

\* Delegate::command, cmd.get(PROCESS_TEL_URL)
HandleProcessTelUrl(p) ==
    LET url == Head(queue[p]).url IN
    /\ NextCmd(p, "PROCESS_TEL_URL")
    /\ IF /\ StartsWith(url, TelPrefix)
          /\ data[p].domain # <<>>
          /\ data[p].extension # <<>>
       THEN /\ data' = [data EXCEPT
                          ![p].phone_number = UiNormalize(url),
                          ![p].status_message = Status("Processing tel: URL: {}",
                                                       SplitAt4Tail(url))]
            /\ queue' = [queue EXCEPT ![p] = Append(Tail(@), Cmd("MAKE_CALL"))]
       ELSE /\ queue' = [queue EXCEPT ![p] = Tail(@)]
            /\ UNCHANGED data
    /\ UNCHANGED <<sockFile, prefsFile, mainVars, backlog, lstVars, delegate,
                   timer, attempts, fnVars>>

\* the idle callback a MAKE_CALL thread added: data.status_message = result
HandleIdle(p) ==
    /\ NextCmd(p, "idle")
    /\ data' = [data EXCEPT ![p].status_message = Head(queue[p]).result]
    /\ queue' = [queue EXCEPT ![p] = Tail(@)]
    /\ UNCHANGED <<sockFile, prefsFile, mainVars, backlog, lstVars, delegate,
                   timer, attempts, fnVars>>

\* window_added's thread: a second after the window, APP_INITIALIZED
TimerFire(p) ==
    /\ pc[p] = "ui"
    /\ timer[p]
    /\ timer' = [timer EXCEPT ![p] = FALSE]
    /\ queue' = [queue EXCEPT ![p] = Append(@, Cmd("APP_INITIALIZED"))]
    /\ UNCHANGED <<sockFile, prefsFile, mainVars, backlog, lstVars, data,
                   delegate, attempts, fnVars>>

(***************************************************************************)
(* The listener thread of a primary.                                       *)
(***************************************************************************)
\* a thread that removes the file it could not bind
BindRemovesFile(file) == <<>>
\* the file after a bind that failed: "if let Ok(listener)" has no else, the
\* thread's closure ends
BindLeavesFile(file) == file

\* UnixListener::bind(&socket_path): fails when the path exists
ListenerBind(q) ==
    /\ lst[q] = "spawned"
    /\ IF sockFile = <<>>
       THEN /\ sockFile' = <<q>>
            /\ lst' = [lst EXCEPT ![q] = "listening"]
       ELSE /\ lst' = [lst EXCEPT ![q] = "ended"]
            /\ sockFile' = BindLeavesFile(sockFile)
    /\ UNCHANGED <<prefsFile, mainVars, backlog, app_state, uiVars, attempts,
                   fnVars>>

\* a decoding that accepts every sequence of bytes
Utf8ValidLossy(bytes) == TRUE
\* String::from_utf8 accepts the bytes read
Utf8Valid(bytes) == \A i \in 1..Len(bytes) : bytes[i] # "xFF"

\* a test that takes every payload for a call request
IsCallRequestAny(message) == TRUE
\* message.starts_with("tel:")
IsCallRequest(message) == StartsWith(message, TelPrefix)

\* "If we have valid settings": the test is made on the thread's clone
SettingsValid(st) == st.domain # <<>> /\ st.extension # <<>>

\* a listener thread that writes the number it read into the UI's state
ListenerWritesNumber(q, message) ==
    [data EXCEPT ![q].phone_number = ListenerNormalize(message)]
\* the UI's state after a turn of the listener thread: the thread owns a
\* clone and an event sink only, the state itself is out of its reach
ListenerLeavesData(q, message) == data

\* a listener that takes the connection made last
AcceptsNewest(pending) == pending[Len(pending)]
\* listener.accept(): the connection that has waited longest
Accepts(pending) == Head(pending)

\* one turn of the loop with a connection to accept: read, decode, route.
\* a listener that hands every call request to the UI context, the ones it
\* called for as well
HandsToUiAlways(isCall, direct) == isCall
\* listener thread: "Only if settings not configured, send to UI", the else
\* of the direct call
HandsToUi(isCall, direct) == isCall /\ ~direct

\* The accepted stream is non-blocking like the listener (accept on macOS
\* hands the flag on), so a read before the peer has written fails with
\* WouldBlock and the stream is dropped
ListenerServe(q) ==
    LET c == Accepts(backlog[q])
        message == c.data
        clean_number == ListenerNormalize(message)
        isCall == c.data # <<>> /\ Utf8Valid(c.data) /\ IsCallRequest(message)
        direct == isCall /\ SettingsValid(app_state[q])
    IN
    /\ lst[q] = "listening"
    /\ backlog[q] # <<>>
    /\ backlog' = [backlog EXCEPT ![q] = Tail(@)]
    /\ IF direct
       THEN /\ Len(attempts) < MaxAttempts
            /\ attempts' = MakeDirectCall(q, "listener", app_state[q].domain,
                                          app_state[q].extension, app_state[q].key,
                                          clean_number, app_state[q].auto_answer)
       ELSE UNCHANGED attempts
    /\ IF HandsToUi(isCall, direct)
       THEN /\ Len(queue[q]) < MaxQueue
            /\ queue' = [queue EXCEPT ![q] = Append(@, ProcessTelUrl(message))]
       ELSE UNCHANGED queue
    /\ data' = ListenerLeavesData(q, message)
    /\ UNCHANGED <<sockFile, prefsFile, mainVars, lst, app_state, delegate,
                   timer, fnVars>>

\* listener.accept() fails with an error other than WouldBlock: break
ListenerAcceptError(q) ==
    /\ lst[q] = "listening"
    /\ lst' = [lst EXCEPT ![q] = "ended"]
    /\ backlog' = [backlog EXCEPT ![q] = <<>>]
    /\ UNCHANGED <<sockFile, prefsFile, mainVars, app_state, uiVars, attempts,
                   fnVars>>

(***************************************************************************)
(* A call thread: the GET and its outcome.                                  *)
(***************************************************************************)
Outcomes == {"success", "http_error", "network_error"}

\* a thread that reports every answer as a started call
ResultMessageAlwaysOk(outcome, phone_number) ==
    Status("Call initialized to {}", phone_number)
\* the result string of the MAKE_CALL thread
ResultMessage(outcome, phone_number) ==
    CASE outcome = "success" -> Status("Call initialized to {}", phone_number)
      [] outcome = "http_error" -> Status("Error: HTTP status {}", <<"500">>)
      [] OTHER -> Status("Error: {}", <<"connection refused">>)

\* a sequence without its i-th element
RemoveAt(seq, i) == SubSeq(seq, 1, i - 1) \o SubSeq(seq, i + 1, Len(seq))

\* call threads that all hand their result to the UI context
ReportsToUiAlways(attempt) == TRUE
\* the MAKE_CALL thread owns an event_sink and adds an idle callback with its
\* result; the thread of make_direct_call has none and only prints
ReportsToUi(attempt) == attempt.origin = "ui"

\* a thread that sends its GET again after an answer that is no success
ThreadRetriesOnError(seq, i, outcome) ==
    IF outcome = "success" THEN RemoveAt(seq, i) ELSE seq
\* the threads left when the i-th has matched the answer to its GET: the
\* closure ends after the match, whatever the answer
ThreadEnds(seq, i, outcome) == RemoveAt(seq, i)

\* a thread that reads the number from the UI's state when it reports
PhoneOfLiveState(attempt) == data[attempt.proc].phone_number
\* the number the thread names in its messages: its own phone_number, cloned
\* before thread::spawn and moved into the closure
PhoneOfThread(attempt) == attempt.phone_number

\* the thread runs: Client::new().get(url_str).send() is issued and returns,
\* a MAKE_CALL thread hands its result to the UI context, and the thread ends
CallDone(i, outcome) ==
    /\ i \in 1..Len(attempts)
    /\ attempts[i].alive
    /\ outcome \in Outcomes
    /\ attempts' = ThreadEnds(attempts, i, outcome)
    /\ IF ReportsToUi(attempts[i])
       THEN /\ Len(queue[attempts[i].proc]) < MaxQueue
            /\ queue' = [queue EXCEPT ![attempts[i].proc] =
                           Append(@, IdleCallback(outcome,
                                       ResultMessage(outcome, PhoneOfThread(attempts[i]))))]
       ELSE UNCHANGED queue
    /\ UNCHANGED <<sockFile, prefsFile, mainVars, backlog, lstVars, data,
                   delegate, timer, fnVars>>

(***************************************************************************)
(* The processes of a session, started in any order and interleaved.       *)
(***************************************************************************)
Next ==
    \/ \E p \in Procs, a \in ArgLists : Launch(p, a)
    \/ \E p \in Procs : ProbeExists(p)
    \/ \E p \in Procs : ProbeConnect(p)
    \/ \E p \in Procs : ProbeWrite(p)
    \/ \E p \in Procs : ProbeRemove(p)
    \/ \E p \in Procs : FwdConnect(p)
    \/ \E p \in Procs : FwdWrite(p)
    \/ \E p \in Procs : SpawnInstance(p)
    \/ \E p \in Procs : RetryConnect(p)
    \/ \E p \in Procs : RetryWrite(p)
    \/ \E p \in Procs : LoadForTel(p)
    \/ \E p \in Procs : MainReturn(p)
    \/ \E p \in Procs : LaunchUi(p)
    \/ \E p \in Procs : Quit(p)
    \/ \E p \in Procs : TimerFire(p)
    \/ \E p \in Procs : HandleAppInitialized(p)
    \/ \E p \in Procs : HandleProcessTelUrl(p)
    \/ \E p \in Procs : ListenerBind(p)
    \/ \E p \in Procs : ListenerServe(p)
    \/ \E i \in 1..MaxAttempts, o \in Outcomes : CallDone(i, o)

Spec == Init /\ [][Next]_vars

\* a step of some thread of some process: main, the UI context,
\* window_added's timer thread, the listener thread, a call thread
ThreadStep ==
    \/ \E p \in Procs :
          \/ ProbeExists(p) \/ ProbeConnect(p) \/ ProbeWrite(p) \/ ProbeRemove(p)
          \/ FwdConnect(p) \/ FwdWrite(p) \/ SpawnInstance(p)
          \/ RetryConnect(p) \/ RetryWrite(p)
          \/ LoadForTel(p) \/ MainReturn(p) \/ LaunchUi(p)
          \/ TimerFire(p) \/ HandleAppInitialized(p) \/ HandleProcessTelUrl(p)
          \/ ListenerBind(p) \/ ListenerServe(p)
    \/ \E i \in 1..MaxAttempts, o \in Outcomes : CallDone(i, o)

\* the system schedules the threads: while some thread can take a step, a
\* thread takes one in the end; starting and quitting a process are left to
\* the user
ThreadsRun == WF_vars(ThreadStep)

\* the user starts a process while at most one other process is running, and
\* that one shows its window
LaunchBesideOne(p, a) ==
    /\ Cardinality({r \in Procs : pc[r] \notin {"off", "exited"}}) <= 1
    /\ \A r \in Procs : pc[r] \in {"off", "exited", "ui"}
    /\ Launch(p, a)

NextLive ==
    \/ \E p \in Procs, a \in ArgLists : LaunchBesideOne(p, a)
    \/ ThreadStep
    \/ \E p \in Procs : Quit(p)

SpecLive == Init /\ [][NextLive]_vars /\ ThreadsRun

(***************************************************************************)
(* The user at the window, and other programs at the socket.               *)
(***************************************************************************)
\* what the user may type into a text box
Typed(field) ==
    CASE field = "domain" -> {<<>>, <<"d">>}
      [] field = "extension" -> {<<>>, <<"1">>}
      [] field = "phone_number" -> {<<>>, <<"5">>}

\* a TextBox bound by its lens writes the field
EditField(p, field, v) ==
    /\ pc[p] = "ui"
    /\ v \in Typed(field)
    /\ data[p][field] # v
    /\ data' = [data EXCEPT ![p][field] = v]
    /\ UNCHANGED <<sockFile, prefsFile, mainVars, backlog, lstVars, delegate,
                   timer, queue, attempts, fnVars>>

\* save_preferences(state): the file is written with the state's JSON
SavePreferences(state) == <<ToJson(state)>>

\* the Save Settings button
ClickSave(p) ==
    /\ pc[p] = "ui"
    /\ prefsFile' = SavePreferences(data[p])
    /\ data' = [data EXCEPT ![p].status_message =
                  Status("Settings saved successfully!", <<>>)]
    /\ UNCHANGED <<sockFile, mainVars, backlog, lstVars, delegate, timer, queue,
                   attempts, fnVars>>

\* the Place Call button: ctx.submit_command(MAKE_CALL)
ClickPlaceCall(p) ==
    /\ pc[p] = "ui"
    /\ Len(queue[p]) < MaxQueue
    /\ queue' = [queue EXCEPT ![p] = Append(@, Cmd("MAKE_CALL"))]
    /\ UNCHANGED <<sockFile, prefsFile, mainVars, backlog, lstVars, data,
                   delegate, timer, attempts, fnVars>>

\* what another program may write to the socket: call requests, the ping,
\* bytes that are no UTF-8, or nothing at all
Payloads == {Tel5, TelDash, Ping, TelPrefix \o <<"xFF">>, <<>>}

\* another program connects to the listener and writes, or has not written yet
ClientSend(q, payload, eof) ==
    /\ CanConnect
    /\ sockFile[1] = q
    /\ Len(backlog[q]) < MaxBacklog
    /\ payload \in Payloads
    /\ eof \/ payload = <<>>
    /\ backlog' = [backlog EXCEPT ![q] =
                     Append(@, [from |-> 0, data |-> payload, eof |-> eof])]
    /\ UNCHANGED <<sockFile, prefsFile, mainVars, lstVars, uiVars, attempts,
                   fnVars>>

\* the process whose window the user works at
UiProc == CHOOSE p \in Procs : \A q \in Procs : p <= q

\* the window: the user types and places calls
NextUi ==
    \/ Launch(UiProc, <<>>)
    \/ ProbeExists(UiProc)
    \/ ProbeConnect(UiProc)
    \/ ProbeRemove(UiProc)
    \/ LaunchUi(UiProc)
    \/ Quit(UiProc)
    \/ TimerFire(UiProc)
    \/ HandleMakeCall(UiProc)
    \/ HandleAppInitialized(UiProc)
    \/ HandleIdle(UiProc)
    \/ ListenerBind(UiProc)
    \/ \E i \in 1..MaxAttempts, o \in Outcomes : CallDone(i, o)
    \/ \E f \in {"domain", "extension", "phone_number"} :
          \E v \in Typed(f) : EditField(UiProc, f, v)
    \/ ClickPlaceCall(UiProc)

SpecUi == Init /\ [][NextUi]_vars

\* the socket: other programs write to the primary's listener while the user
\* changes the settings in the window (a tel: URI without digits reaches the
\* listener from a secondary under Spec)
NextListener ==
    \/ Launch(UiProc, <<>>)
    \/ ProbeExists(UiProc)
    \/ ProbeConnect(UiProc)
    \/ ProbeRemove(UiProc)
    \/ LaunchUi(UiProc)
    \/ Quit(UiProc)
    \/ TimerFire(UiProc)
    \/ HandleMakeCall(UiProc)
    \/ HandleAppInitialized(UiProc)
    \/ HandleProcessTelUrl(UiProc)
    \/ HandleIdle(UiProc)
    \/ ListenerBind(UiProc)
    \/ ListenerServe(UiProc)
    \/ ListenerAcceptError(UiProc)
    \/ \E i \in 1..MaxAttempts, o \in Outcomes : CallDone(i, o)
    \/ \E f \in {"domain", "extension"} :
          \E v \in Typed(f) : EditField(UiProc, f, v)
    \/ \E payload \in Payloads \ {TelDash}, eof \in BOOLEAN :
          ClientSend(UiProc, payload, eof)

SpecListener == Init /\ [][NextListener]_vars

(***************************************************************************)
(* Properties of the instance coordination (checked under Spec).           *)
(***************************************************************************)
\* the characters of s that are none of - space ( )
Stripped(s) == SelectSeq(s, LAMBDA c : c \notin {"-", " ", "(", ")"})

\* C1: in every reachable state at most one process holds a live listener
\* that was bound on the socket path
C1_AtMostOneListener ==
    Cardinality({q \in Procs : lst[q] = "listening"}) <= 1

\* C2 as stated: at any time at most one process of the session has an open
\* window
C2_AtMostOneWindow ==
    Cardinality({p \in Procs : pc[p] = "ui"}) <= 1

\* C2 as amended: a process that has written its tel: URI to the primary has
\* exited and shows no window, and a process that shows a window has
\* forwarded nothing
C2_ForwarderHasNoWindow ==
    \A p \in Procs :
        /\ sent[p] # <<>> => pc[p] = "exited" /\ ~timer[p] /\ queue[p] = <<>>
        /\ pc[p] \in {"load", "return", "launch", "ui"} => sent[p] = <<>>

\* C2 witness: a secondary has forwarded its URI and gone while the primary
\* shows its window
C2_Witness ==
    \E p, q \in Procs :
        /\ sent[p] # <<>> /\ pc[p] = "exited"
        /\ pc[q] = "ui" /\ lst[q] = "listening"

\* C3: try_connect_to_primary decides Secondary exactly when a live process
\* is listening on the socket path at the time it decides
C3_SecondaryIffLiveListener ==
    \A p \in Procs :
        probeLive[p] # <<>> => (is_primary[p] <=> ~probeLive[p][1])

C5_AttemptsHaveAllData ==
    \A i \in 1..Len(attempts) :
        /\ attempts[i].domain # <<>>
        /\ attempts[i].extension # <<>>
        /\ attempts[i].phone_number # <<>>

(***************************************************************************)
(* Properties of the dispatch paths.                                       *)
(***************************************************************************)
\* the step in which the UI context of p handles the MAKE_CALL at the head of
\* its queue
MakeCallHandled(p) ==
    /\ NextCmd(p, "MAKE_CALL")
    /\ pc'[p] = "ui"
    /\ queue'[p] = Tail(queue[p])

ErrorStatus(s) == s.text = "Error: Missing domain, extension or phone number"

\* C6: handling MAKE_CALL starts a call attempt exactly when domain,
\* extension and phone_number of the state are all non-empty; with one of
\* them empty the status becomes an error string, no attempt (request) is
\* added, and domain, extension, key, auto_answer and phone_number stay
C6_MakeCallGuard ==
    [][\A p \in Procs : MakeCallHandled(p) =>
          LET d == data[p]
              complete == d.domain # <<>> /\ d.extension # <<>> /\ d.phone_number # <<>>
          IN /\ complete <=> Len(attempts') = Len(attempts) + 1
             /\ complete =>
                   LET a == attempts'[Len(attempts')]
                   IN /\ a.proc = p /\ a.origin = "ui"
                      /\ a.domain = d.domain /\ a.extension = d.extension
                      /\ a.phone_number = d.phone_number
             /\ ~complete =>
                   /\ attempts' = attempts
                   /\ ErrorStatus(data'[p].status_message)
                   /\ data'[p] = [d EXCEPT !.status_message = data'[p].status_message]
      ]_vars

\* C6 witness: MAKE_CALL was handled with the phone number missing: the error
\* status is shown, domain and extension are still there, no thread runs
C6_Witness ==
    \E p \in Procs :
        /\ pc[p] = "ui"
        /\ ErrorStatus(data[p].status_message)
        /\ data[p].domain # <<>> /\ data[p].extension # <<>>
        /\ data[p].phone_number = <<>>
        /\ attempts = <<>>

\* the step in which the listener of q accepts a connection and reads message
TelServed(q) ==
    /\ lst[q] = "listening" /\ lst'[q] = "listening"
    /\ backlog[q] # <<>>
    /\ backlog'[q] = Tail(backlog[q])

\* C9: a tel: message the listener accepts takes exactly one route, chosen by
\* the primary's settings at the moment it is received: make_direct_call and
\* no command when domain and extension are set, PROCESS_TEL_URL and no call
\* otherwise
C9_RoutedByCurrentSettings ==
    [][\A q \in Procs :
          TelServed(q) /\ Utf8Valid(Head(backlog[q]).data)
                       /\ StartsWith(Head(backlog[q]).data, TelPrefix) =>
              LET called == Len(attempts') = Len(attempts) + 1
                  handed == queue'[q] = Append(queue[q],
                                ProcessTelUrl(Head(backlog[q]).data))
              IN IF data[q].domain # <<>> /\ data[q].extension # <<>>
                 THEN called /\ queue'[q] = queue[q]
                 ELSE handed /\ attempts' = attempts
      ]_vars

\* C10: a payload the listener reads that does not start with tel: (the ping
\* of try_connect_to_primary, or nothing) starts no call attempt, submits no
\* command and changes no state of the UI
C10_OtherPayloadIgnored ==
    [][\A q \in Procs :
          TelServed(q) /\ ~StartsWith(Head(backlog[q]).data, TelPrefix) =>
              /\ attempts' = attempts
              /\ queue' = queue
              /\ data' = data
      ]_vars

\* C10 witness: a process without a tel: argument has probed a live primary,
\* the primary has read the ping, and no call thread was started
C10_Witness ==
    \E p, q \in Procs :
        /\ probeLive[p] = <<TRUE>> /\ ~is_primary[p] /\ args[p] = <<>>
        /\ lst[q] = "listening" /\ backlog[q] = <<>>
        /\ attempts = <<>> /\ queue[q] = <<>>

(***************************************************************************)
(* The normalization sites applied to one tel: URI (SpecNorm).             *)
(***************************************************************************)
NormChars == {"5", "+", "-", " ", "(", ")", "a"}
ExampleUri ==
    TelPrefix \o <<"+", "1", " ", "(", "5", "5", "5", ")", " ",
                   "1", "2", "3", "-", "4", "5", "6", "7">>
ExampleNumber == <<"+", "1", "5", "5", "5", "1", "2", "3", "4", "5", "6", "7">>
\* tel: followed by up to MaxLen characters, and the example of the spec
TelUris ==
    {TelPrefix \o [i \in 1..n |-> t[i]] :
        n \in 0..MaxLen, t \in [1..MaxLen -> NormChars]} \cup {ExampleUri}

NoNumbers == [main |-> <<>>, listener |-> <<>>, ui |-> <<>>]

InitNorm ==
    /\ sockFile = <<>>
    /\ prefsFile = <<>>
    /\ NoneStarted
    /\ fnIn \in TelUris
    /\ fnOut = NoNumbers

\* main's argument scan over the one argument fnIn
NormalizeInMain ==
    /\ fnOut.main = <<>>
    /\ ScanArgs(<<fnIn>>).has_tel_url
    /\ fnOut' = [fnOut EXCEPT !.main = <<ScanArgs(<<fnIn>>).tel_number>>]
    /\ UNCHANGED <<sockFile, prefsFile, mainVars, backlog, lstVars, uiVars,
                   attempts, fnIn>>

\* the listener thread's clean_number for the message fnIn
NormalizeInListener ==
    /\ fnOut.listener = <<>>
    /\ Utf8Valid(fnIn) /\ IsCallRequest(fnIn)
    /\ fnOut' = [fnOut EXCEPT !.listener = <<ListenerNormalize(fnIn)>>]
    /\ UNCHANGED <<sockFile, prefsFile, mainVars, backlog, lstVars, uiVars,
                   attempts, fnIn>>

\* the PROCESS_TEL_URL handler's clean_number for the url fnIn
NormalizeInUi ==
    /\ fnOut.ui = <<>>
    /\ StartsWith(fnIn, TelPrefix)
    /\ fnOut' = [fnOut EXCEPT !.ui = <<UiNormalize(fnIn)>>]
    /\ UNCHANGED <<sockFile, prefsFile, mainVars, backlog, lstVars, uiVars,
                   attempts, fnIn>>

NextNorm == NormalizeInMain \/ NormalizeInListener \/ NormalizeInUi

SpecNorm == InitNorm /\ [][NextNorm]_vars

\* C8: each normalization site yields the URI without its first four
\* characters and without any - space ( ), every other character kept in
\* order; tel:+1 (555) 123-4567 yields +15551234567
C8_NormalizeSites ==
    \A site \in {"main", "listener", "ui"} :
        fnOut[site] # <<>> =>
            /\ fnOut[site][1] = Stripped(SubSeq(fnIn, 5, Len(fnIn)))
            /\ fnIn = ExampleUri => fnOut[site][1] = ExampleNumber

\* C8 witness: all three sites have normalized the example of the spec
C8_Witness ==
    /\ fnIn = ExampleUri
    /\ fnOut = [main |-> <<ExampleNumber>>, listener |-> <<ExampleNumber>>,
                ui |-> <<ExampleNumber>>]

(***************************************************************************)
(* The two URL builders applied to one set of inputs (SpecUrl).            *)
(***************************************************************************)
CallInputs ==
    [domain : {<<"d">>, HttpScheme \o <<"d">>, HttpsScheme \o <<"d">>,
               <<"pbx.example.com">>},
     extension : {<<"1">>, <<"100">>},
     key : {<<>>, <<"k">>, <<"abc">>},
     phone_number : {<<>>, <<"5">>, <<"+", "5">>, <<"5551234567">>},
     auto_answer : BOOLEAN]

ExampleCall ==
    [domain |-> <<"pbx.example.com">>, extension |-> <<"100">>,
     key |-> <<"abc">>, phone_number |-> <<"5551234567">>, auto_answer |-> TRUE]

NoUrls == [make_call |-> <<>>, direct |-> <<>>]

InitUrl ==
    /\ sockFile = <<>>
    /\ prefsFile = <<>>
    /\ NoneStarted
    /\ fnIn \in CallInputs
    /\ fnOut = NoUrls

\* the MAKE_CALL thread builds url_str
BuildMakeCallUrl ==
    /\ fnOut.make_call = <<>>
    /\ fnOut' = [fnOut EXCEPT !.make_call =
                   <<MakeCallUrl(fnIn.domain, fnIn.extension, fnIn.key,
                                 fnIn.phone_number, fnIn.auto_answer)>>]
    /\ UNCHANGED <<sockFile, prefsFile, mainVars, backlog, lstVars, uiVars,
                   attempts, fnIn>>

\* make_direct_call's thread builds url_str
BuildDirectCallUrl ==
    /\ fnOut.direct = <<>>
    /\ fnOut' = [fnOut EXCEPT !.direct =
                   <<DirectCallUrl(fnIn.domain, fnIn.extension, fnIn.key,
                                   fnIn.phone_number, fnIn.auto_answer)>>]
    /\ UNCHANGED <<sockFile, prefsFile, mainVars, backlog, lstVars, uiVars,
                   attempts, fnIn>>

NextUrl == BuildMakeCallUrl \/ BuildDirectCallUrl

SpecUrl == InitUrl /\ [][NextUrl]_vars

\* reading a URL back: the path and the names of the query
UrlPath == "/app/click_to_call/click_to_call.php"
UrlKeys ==
    {"?src_cid_name=", "&src_cid_number=", "&dest_cid_name=",
     "&dest_cid_number=", "&src=", "&dest=", "&auto_answer=", "&rec=",
     "&ringback=us-ring", "&key="}

\* the longest prefix of s that holds no query name
RECURSIVE ValuePrefix(_)
ValuePrefix(s) ==
    IF s = <<>> \/ Head(s) \in UrlKeys THEN <<>>
    ELSE <<Head(s)>> \o ValuePrefix(Tail(s))

IndexOf(url, e) == CHOOSE i \in 1..Len(url) : url[i] = e

\* the value that follows the query name k in url
Param(url, k) == ValuePrefix(SubSeq(url, IndexOf(url, k) + 1, Len(url)))

\* what stands before the path
UrlBase(url) == SubSeq(url, 1, IndexOf(url, UrlPath) - 1)

BuiltUrls == {fnOut[b][1] : b \in {b \in {"make_call", "direct"} : fnOut[b] # <<>>}}

\* scheme, host, path, the four caller-id values, auto_answer and key as C7
\* states them
UrlCommonFields(u) ==
    /\ UrlBase(u) = IF StartsWith(fnIn.domain, HttpScheme)
                       \/ StartsWith(fnIn.domain, HttpsScheme)
                    THEN fnIn.domain
                    ELSE HttpsScheme \o fnIn.domain
    /\ u[Len(UrlBase(u)) + 2] = "?src_cid_name="
    /\ Param(u, "?src_cid_name=") = fnIn.phone_number
    /\ Param(u, "&src_cid_number=") = fnIn.phone_number
    /\ Param(u, "&dest_cid_name=") = fnIn.phone_number
    /\ Param(u, "&dest_cid_number=") = fnIn.phone_number
    /\ Param(u, "&auto_answer=") = (IF fnIn.auto_answer THEN <<"true">> ELSE <<"false">>)
    /\ Param(u, "&key=") = fnIn.key

Rank ==
    [off |-> 0, probe_exists |-> 1, probe_connect |-> 2, probe_write |-> 3,
     probe_remove |-> 4, fwd_connect |-> 5, fwd_write |-> 6, spawn |-> 7,
     retry_connect |-> 8, retry_write |-> 9, load |-> 10, return |-> 11,
     launch |-> 12, ui |-> 13, exited |-> 14]

\* p takes a step of main
Moves(p) == pc'[p] # pc[p]

PrefsConfigured ==
    LoadPreferences(prefsFile).domain # <<>>
        /\ LoadPreferences(prefsFile).extension # <<>>

C12_LeavesOnlyFromUi ==
    [][\A p \in Procs :
          Moves(p) /\ pc'[p] = "exited" /\ sent'[p] = <<>> => pc[p] = "ui"
      ]_vars

\* C12 as amended: a process that reaches load_preferences or the launch of
\* the window, unless it carries a tel: argument with domain and extension
\* configured, shows the UI; a primary that shows the UI has its listener
\* thread attempt the bind unless the process quits before; a primary with a
\* tel: argument and configured preferences returns from main without window
\* and listener; a process that is not primary starts no listener
C12_PrimaryStartsListener ==
    /\ \A p \in Procs :
          (pc[p] \in {"load", "launch"} /\ ~(has_tel_url[p] /\ PrefsConfigured))
              ~> (pc[p] = "ui")
    /\ \A p \in Procs :
          (pc[p] = "ui" /\ is_primary[p])
              ~> (lst[p] \in {"listening", "ended"} \/ pc[p] = "exited")
    /\ [][\A p \in Procs :
            Moves(p) /\ pc'[p] = "exited" /\ sent'[p] = <<>> =>
                \/ pc[p] = "ui"
                \/ pc[p] = "return" /\ has_tel_url[p] /\ PrefsConfigured
                      /\ lst[p] = "none"
         ]_vars
    /\ [](\A p \in Procs : lst[p] # "none" => is_primary[p])

\* C12 witness: a primary that was started with a tel: argument and without
\* configured preferences shows its window and listens
C12_Witness ==
    \E p \in Procs :
        /\ is_primary[p] /\ has_tel_url[p] /\ ~PrefsConfigured
        /\ pc[p] = "ui" /\ lst[p] = "listening"

\* C13: no step of the program abandons a call attempt that was started:
\* every call thread that has not produced its outcome is still running
C13_NoAttemptAbandoned ==
    \A i \in 1..Len(attempts) : attempts[i].alive

(***************************************************************************)
(* Properties of the status line and of the call threads.                  *)
(***************************************************************************)
\* the step in which a call thread of p is started; the new thread is the
\* last of attempts'
AttemptStarted(p) ==
    /\ Len(attempts') = Len(attempts) + 1
    /\ attempts'[Len(attempts')].proc = p

\* the step in which the i-th call thread produces its outcome and ends
AttemptCompleted(i) ==
    /\ i \in 1..Len(attempts)
    /\ Len(attempts') = Len(attempts) - 1
    /\ attempts[i].alive
    /\ attempts' = RemoveAt(attempts, i)

\* the step in which the UI context of p applies the idle callback at the
\* head of its queue
IdleApplied(p) ==
    /\ NextCmd(p, "idle")
    /\ pc'[p] = "ui"
    /\ queue'[p] = Tail(queue[p])

IsErrorString(s) ==
    s.text \in {"Error: HTTP status {}", "Error: {}",
                "Error: Missing domain, extension or phone number"}

\* C15: the completion of a MAKE_CALL attempt is decided by the answer to
\* its GET: for a 2xx answer the result names the dialed number and is no
\* error, for another status it is an error string with the status code, for
\* a transport failure an error string with the error text; the completion
\* queues that result alone and starts no thread, and the UI context, when it
\* applies the callback, writes the result to status_message and starts no
\* request either
C15_OutcomeDecidesStatus ==
    [][ /\ \A i \in 1..Len(attempts) :
            AttemptCompleted(i) /\ attempts[i].origin = "ui" =>
                LET owner == attempts[i].proc
                    e == queue'[owner][Len(queue'[owner])]
                IN /\ queue'[owner] = Append(queue[owner], e)
                   /\ e.cmd = "idle"
                   /\ e.outcome \in Outcomes
                   /\ e.outcome = "success" =>
                         /\ e.result.text = "Call initialized to {}"
                         /\ e.result.arg = attempts[i].phone_number
                         /\ ~IsErrorString(e.result)
                   /\ e.outcome = "http_error" =>
                         /\ e.result.text = "Error: HTTP status {}"
                         /\ e.result.arg = <<"500">>
                         /\ IsErrorString(e.result)
                   /\ e.outcome = "network_error" =>
                         /\ e.result.text = "Error: {}"
                         /\ e.result.arg = <<"connection refused">>
                         /\ IsErrorString(e.result)
        /\ \A p \in Procs :
            IdleApplied(p) =>
                /\ data'[p] = [data[p] EXCEPT !.status_message = Head(queue[p]).result]
                /\ attempts' = attempts
      ]_vars

\* C15 witness: the GET of a call to 5 was answered with status 500, the
\* callback was applied, and no call thread is left
C15_Witness ==
    \E p \in Procs :
        /\ pc[p] = "ui"
        /\ data[p].status_message =
              [text |-> "Error: HTTP status {}", arg |-> <<"500">>]
        /\ data[p].phone_number = <<"5">>
        /\ attempts = <<>> /\ queue[p] = <<>>

\* C16: the state of the UI is written only in the UI context.  A turn of
\* the listener thread and the completion of a call thread leave data as it
\* is and at most append one entry (PROCESS_TEL_URL, an idle callback) to the
\* queue of their process; a step that changes the data of a running window
\* is a step of the UI context: a text box edit, or the handling of the one
\* entry at the head of the queue
C16_OnlyUiContextWrites ==
    [][ /\ \A q \in Procs :
            TelServed(q) =>
                /\ data' = data
                /\ \/ queue' = queue
                   \/ queue' = [queue EXCEPT ![q] =
                                  Append(@, ProcessTelUrl(Head(backlog[q]).data))]
        /\ \A i \in 1..Len(attempts) :
            AttemptCompleted(i) =>
                /\ data' = data
                /\ \/ queue' = queue
                   \/ \E o \in Outcomes :
                        queue' = [queue EXCEPT ![attempts[i].proc] =
                                    Append(@, IdleCallback(o,
                                        ResultMessage(o, attempts[i].phone_number)))]
        /\ \A p \in Procs :
            data'[p] # data[p] /\ pc[p] = "ui" /\ pc'[p] = "ui" =>
                /\ backlog' = backlog
                /\ Len(attempts') >= Len(attempts)
                /\ \/ queue' = queue /\ attempts' = attempts
                   \/ /\ queue[p] # <<>>
                      /\ \/ queue'[p] = Tail(queue[p])
                         \/ queue'[p] = Append(Tail(queue[p]), Cmd("MAKE_CALL"))
      ]_vars

\* C16 witness: the UI context has handled a PROCESS_TEL_URL the listener
\* queued for tel:5 and has written the number and the status itself
C16_Witness ==
    \E p \in Procs :
        /\ pc[p] = "ui" /\ lst[p] = "listening"
        /\ data[p].phone_number = <<"5">>
        /\ data[p].status_message = Status("Processing tel: URL: {}", <<"5">>)

\* C17: a call thread sends one GET.  The step in which the GET of a thread
\* is answered, whatever the answer, is the end of that thread: the list of
\* running threads loses exactly that thread and gains none, and no MAKE_CALL
\* is queued; every result handed to the UI context comes from such a step,
\* so no thread gets a second answer and the requests sent never outnumber
\* the attempts started
C17_OneGetPerAttempt ==
    [][ /\ Len(attempts') < Len(attempts) =>
            \E i \in 1..Len(attempts) : AttemptCompleted(i)
        /\ \A p \in Procs :
            (/\ pc'[p] = "ui"
             /\ Len(queue'[p]) = Len(queue[p]) + 1
             /\ queue'[p][Len(queue'[p])].cmd = "idle") =>
                \E i \in 1..Len(attempts) :
                    /\ AttemptCompleted(i)
                    /\ attempts[i].proc = p /\ attempts[i].origin = "ui"
        /\ \A i \in 1..Len(attempts) :
            AttemptCompleted(i) =>
                \A p \in Procs :
                    \/ queue'[p] = queue[p]
                    \/ /\ queue'[p] = Append(queue[p], queue'[p][Len(queue'[p])])
                       /\ queue'[p][Len(queue'[p])].cmd = "idle"
      ]_vars

\* C17 witness: a MAKE_CALL thread got a transport error for its GET and has
\* ended; its result waits in the queue and no thread is left to send again
C17_Witness ==
    \E p \in Procs :
        /\ pc[p] = "ui"
        /\ queue[p] # <<>>
        /\ Head(queue[p]).cmd = "idle" /\ Head(queue[p]).outcome = "network_error"
        /\ attempts = <<>>

(***************************************************************************)
(* save_preferences and load_preferences as functions of the state and of  *)
(* the file.                                                               *)
(***************************************************************************)
\* files that read and parse: a saved one, and a saved one with a member
\* the program does not know
UsableFiles ==
    {<<ConfiguredJson>>,
     <<SubSeq(ConfiguredJson, 1, Len(ConfiguredJson) - 1)
         \o <<",">> \o JsonString(<<"theme">>) \o <<":">> \o JsonString(<<"d">>)
         \o <<"}">>>>}

\* no file, and files that do not read or do not parse: bytes that are no
\* UTF-8, an empty file, a saved one cut short, an object without extension,
\* key and auto_answer, an object whose auto_answer is a string
UnusableFiles ==
    {<<>>,
     <<<<NotUtf8>>>>,
     <<<<>>>>,
     <<SubSeq(ConfiguredJson, 1, 6)>>,
     <<<<"{">> \o JsonString(<<"domain">>) \o <<":">> \o JsonString(<<"d">>)
         \o <<"}">>>>,
     <<<<"{">> \o JsonString(<<"domain">>) \o <<":">> \o JsonString(<<"d">>)
         \o <<",">> \o JsonString(<<"extension">>) \o <<":">> \o JsonString(<<"1">>)
         \o <<",">> \o JsonString(<<"key">>) \o <<":">> \o JsonString(<<"k">>)
         \o <<",">> \o JsonString(<<"auto_answer">>) \o <<":">> \o JsonString(<<"yes">>)
         \o <<"}">>>>}

\* the files preferences.json may be before the program runs
PrefsFiles == UsableFiles \cup UnusableFiles

\* the states save_preferences may be given
SavedStates ==
    [domain : {<<>>, <<"d">>, <<Quote>>, <<Backslash, "n">>, <<"d", Newline>>},
     extension : {<<>>, <<"1">>},
     key : {<<>>, <<"k">>, <<"}", ",", "true">>},
     auto_answer : BOOLEAN,
     phone_number : {<<>>, <<"5">>},
     status_message : {NoStatus, Status("Settings saved successfully!", <<>>)}]

NothingSaved == [write |-> "none", loaded |-> <<>>]

InitPrefs ==
    /\ sockFile = <<>>
    /\ prefsFile \in PrefsFiles
    /\ NoneStarted
    /\ fnIn \in SavedStates
    /\ fnOut = NothingSaved

\* save_preferences(state) whose std::fs::write succeeds
SaveWrites ==
    /\ fnOut.write = "none"
    /\ prefsFile' = SavePreferences(fnIn)
    /\ fnOut' = [write |-> "done", loaded |-> <<>>]
    /\ UNCHANGED <<sockFile, mainVars, backlog, lstVars, uiVars, attempts, fnIn>>

\* save_preferences(state) whose std::fs::write fails, or that finds no
\* config_dir: .ok() drops the error and the file stays as it was
SaveFails ==
    /\ fnOut.write = "none"
    /\ fnOut' = [write |-> "failed", loaded |-> <<>>]
    /\ UNCHANGED <<sockFile, prefsFile, mainVars, backlog, lstVars, uiVars,
                   attempts, fnIn>>

\* load_preferences()
LoadReturns ==
    /\ fnOut.loaded = <<>>
    /\ fnOut' = [fnOut EXCEPT !.loaded = <<LoadPreferences(prefsFile)>>]
    /\ UNCHANGED <<sockFile, prefsFile, mainVars, backlog, lstVars, uiVars,
                   attempts, fnIn>>

NextPrefs == SaveWrites \/ SaveFails \/ LoadReturns

SpecPrefs == InitPrefs /\ [][NextPrefs]_vars

\* C18: for every state s, load_preferences() after a save_preferences(s)
\* whose write succeeded returns s's domain, extension, key and auto_answer,
\* with an empty phone_number and an empty status_message whatever s had
C18_SaveLoadRoundTrip ==
    (fnOut.write = "done" /\ fnOut.loaded # <<>>) =>
        /\ \A f \in SettingsFields : fnOut.loaded[1][f] = fnIn[f]
        /\ fnOut.loaded[1].phone_number = <<>>
        /\ fnOut.loaded[1].status_message = NoStatus

\* C18 witness: a state with a backslash in the domain, punctuation of JSON
\* in the key, a phone number and a status message was saved and loaded
C18_Witness ==
    /\ fnOut.write = "done" /\ fnOut.loaded # <<>>
    /\ fnIn.domain = <<Backslash, "n">>
    /\ fnIn.key = <<"}", ",", "true">>
    /\ fnIn.phone_number = <<"5">>
    /\ fnIn.status_message # NoStatus

(***************************************************************************)
(* One process from its start to its window, over every preferences.json.  *)
(***************************************************************************)
InitStart ==
    /\ sockFile \in {<<>>, <<0>>}
    /\ prefsFile \in PrefsFiles
    /\ NoneStarted
    /\ fnIn = <<>>
    /\ fnOut = <<>>

NextStart ==
    \/ \E a \in ArgLists : Launch(UiProc, a)
    \/ ProbeExists(UiProc)
    \/ ProbeConnect(UiProc)
    \/ ProbeRemove(UiProc)
    \/ LoadForTel(UiProc)
    \/ MainReturn(UiProc)
    \/ LaunchUi(UiProc)
    \/ Quit(UiProc)
    \/ TimerFire(UiProc)
    \/ HandleAppInitialized(UiProc)
    \/ ListenerBind(UiProc)
    \/ \E i \in 1..MaxAttempts, o \in Outcomes : CallDone(i, o)
    \/ ClickSave(UiProc)

SpecStart == InitStart /\ [][NextStart]_vars

\* C19: while there is no preferences.json, or one that does not read or does
\* not parse, load_preferences returns the default state: main, started with
\* a tel: URI, goes from the load on to the window and starts no call; the
\* window opens on the default state; and the process ends only when its
\* window is closed
C19_LoadFallsBackToDefault ==
    [][(prefsFile \in UnusableFiles) =>
         \A p \in Procs :
             /\ (pc[p] = "load" /\ Moves(p)) =>
                    pc'[p] = "launch" /\ attempts' = attempts
             /\ (pc[p] = "launch" /\ Moves(p)) =>
                    pc'[p] = "ui" /\ data'[p] = DefaultState
             /\ (pc'[p] = "exited" /\ Moves(p)) => pc[p] = "ui"
      ]_vars

\* C19 witness: a process started with a tel: URI found a preferences.json
\* that was cut short and shows its window on the default state
C19_Witness ==
    \E p \in Procs :
        /\ has_tel_url[p]
        /\ prefsFile = <<SubSeq(ConfiguredJson, 1, 6)>>
        /\ pc[p] = "ui"
        /\ data[p] = DefaultState

(***************************************************************************)
(* Processes started one beside another, and the user at the window of    *)
(* one whose listener thread has ended.                                    *)
(***************************************************************************)
\* the user types a phone number into the window of a process without listener
TypeNumberUnbound(p, v) ==
    /\ lst[p] = "ended"
    /\ EditField(p, "phone_number", v)

\* the user presses Place Call in the window of a process without listener
PlaceCallUnbound(p) ==
    /\ lst[p] = "ended"
    /\ ClickPlaceCall(p)

NextBind ==
    \/ \E p \in Procs : LaunchBesideOne(p, <<>>)
    \/ \E p \in Procs : ProbeExists(p)
    \/ \E p \in Procs : ProbeConnect(p)
    \/ \E p \in Procs : ProbeWrite(p)
    \/ \E p \in Procs : ProbeRemove(p)
    \/ \E p \in Procs : LaunchUi(p)
    \/ \E p \in Procs : Quit(p)
    \/ \E p \in Procs : TimerFire(p)
    \/ \E p \in Procs : HandleAppInitialized(p)
    \/ \E p \in Procs : HandleMakeCall(p)
    \/ \E p \in Procs : HandleIdle(p)
    \/ \E p \in Procs : ListenerBind(p)
    \/ \E p \in Procs : ListenerServe(p)
    \/ \E i \in 1..MaxAttempts, o \in Outcomes : CallDone(i, o)
    \/ \E p \in Procs : \E v \in Typed("phone_number") : TypeNumberUnbound(p, v)
    \/ \E p \in Procs : PlaceCallUnbound(p)

SpecBind == Init /\ [][NextBind]_vars

\* the step in which the listener thread of p fails to bind and ends
BindFailed(p) == lst[p] = "spawned" /\ lst'[p] = "ended" /\ pc'[p] = "ui"

\* the listener thread of p has ended and p still shows its window
Unbound(p) == lst[p] = "ended" /\ pc[p] = "ui"

\* a step of p itself: of its main, its UI context or one of its threads
StepOf(p) ==
    \/ pc'[p] # pc[p] \/ lst'[p] # lst[p] \/ timer'[p] # timer[p]
    \/ queue'[p] # queue[p] \/ data'[p] # data[p] \/ delegate'[p] # delegate[p]

\* C20: a bind that fails ends the listener thread and nothing else: the
\* socket file, the window, the state, the queue and the call threads stay
\* as they are; from then on the process never holds a listener thread again
\* (no second bind), no step of it touches the socket file, and a MAKE_CALL
\* it handles with domain, extension and phone number present starts a call
\* thread as in any other process
C20_BindFailureEndsListenerOnly ==
    [][\A p \in Procs :
          /\ BindFailed(p) =>
                /\ sockFile' = sockFile
                /\ UNCHANGED <<pc, queue, data, delegate, timer, attempts, backlog>>
                /\ \A r \in Procs \ {p} : lst'[r] = lst[r]
          /\ Unbound(p) =>
                /\ lst'[p] = "ended"
                /\ StepOf(p) => sockFile' = sockFile
                /\ (MakeCallHandled(p) /\ ~MissingData(data[p])) =>
                      /\ AttemptStarted(p)
                      /\ attempts'[Len(attempts')].phone_number = data[p].phone_number
      ]_vars

\* C20 witness: the bind of a process failed on the file another process had
\* bound; the process shows its window and a call placed from it is running
C20_Witness ==
    \E p \in Procs :
        /\ Unbound(p)
        /\ sockFile # <<>> /\ sockFile[1] \in Procs \ {p}
        /\ lst[sockFile[1]] = "listening"
        /\ \E i \in 1..Len(attempts) :
              /\ attempts[i].proc = p /\ attempts[i].origin = "ui"
              /\ attempts[i].alive

(***************************************************************************)
(* Properties of the listener loop and of the call's snapshot.             *)
(***************************************************************************)
\* what was read from a connection is nothing (the read failed or gave zero
\* bytes) or holds bytes that are no UTF-8
Undecodable(bytes) ==
    bytes = <<>> \/ \E k \in 1..Len(bytes) : bytes[k] = "xFF"

\* a PROCESS_TEL_URL was queued for the UI context of q
TelUrlQueued(q) ==
    /\ Len(queue'[q]) = Len(queue[q]) + 1
    /\ queue'[q][Len(queue'[q])].cmd = "PROCESS_TEL_URL"

\* the listener thread of q started a call thread
ListenerCallStarted(q) ==
    /\ AttemptStarted(q)
    /\ attempts'[Len(attempts')].origin = "listener"

\* C21: a connection whose read fails, gives zero bytes or gives bytes that
\* are no UTF-8 is dropped: nothing is dispatched and the listener goes on
\* listening; a listener thread that has ended stays ended, has no
\* connection waiting, and dispatches nothing any more
C21_DropsAndEnds ==
    [][\A q \in Procs :
          /\ (TelServed(q) /\ Undecodable(Head(backlog[q]).data)) =>
                /\ attempts' = attempts
                /\ queue' = queue
                /\ data' = data
          /\ lst[q] = "ended" =>
                /\ lst'[q] = "ended"
                /\ backlog[q] = <<>> /\ backlog'[q] = <<>>
                /\ ~ListenerCallStarted(q)
                /\ ~TelUrlQueued(q)
      ]_vars

\* C21 witness: the listener of a process that had bound the socket has ended
\* on an accept error while the process shows its window
C21_Witness ==
    \E p \in Procs :
        /\ pc[p] = "ui"
        /\ lst[p] = "ended"
        /\ sockFile = <<p>>

\* the call threads without the note of whether their process still runs
Snapshots(seq) == [k \in 1..Len(seq) |-> [seq[k] EXCEPT !.alive = TRUE]]

ClientQueues(q, payload) ==
    /\ CanConnect
    /\ sockFile[1] = q
    /\ Len(backlog[q]) < MaxPending
    /\ payload \in {Tel5, TelDash, Ping}
    /\ backlog' = [backlog EXCEPT ![q] =
                     Append(@, [from |-> 0, data |-> payload, eof |-> TRUE])]
    /\ UNCHANGED <<sockFile, prefsFile, mainVars, lstVars, uiVars, attempts,
                   fnVars>>

NextAccept ==
    \/ Launch(UiProc, <<>>)
    \/ ProbeExists(UiProc)
    \/ ProbeConnect(UiProc)
    \/ ProbeRemove(UiProc)
    \/ LaunchUi(UiProc)
    \/ Quit(UiProc)
    \/ TimerFire(UiProc)
    \/ HandleAppInitialized(UiProc)
    \/ HandleProcessTelUrl(UiProc)
    \/ ListenerBind(UiProc)
    \/ ListenerServe(UiProc)
    \/ \E i \in 1..MaxAttempts, o \in Outcomes : CallDone(i, o)
    \/ \E payload \in {Tel5, TelDash, Ping} : ClientQueues(UiProc, payload)

SpecAccept == Init /\ [][NextAccept]_vars

\* C23: the connections that wait at a listener form a queue: a step adds one
\* at its end, takes the one at its head, or (the listener ending) drops
\* them all.  The tel: message of the connection taken is dispatched in the
\* same step, as a call thread for its number started after all the threads
\* that run, or as a PROCESS_TEL_URL with its text queued behind all the
\* commands that wait; so what is dispatched for c1 precedes what is
\* dispatched for c2.  Every call thread that runs can be the next to
\* complete, whatever the order they were started in
C23_ServedInAcceptOrder ==
    /\ [][\A q \in Procs :
            /\ \/ backlog'[q] = backlog[q]
               \/ backlog'[q] = <<>>
               \/ backlog[q] # <<>> /\ backlog'[q] = Tail(backlog[q])
               \/ /\ Len(backlog'[q]) = Len(backlog[q]) + 1
                  /\ SubSeq(backlog'[q], 1, Len(backlog[q])) = backlog[q]
            /\ (TelServed(q) /\ StartsWith(Head(backlog[q]).data, TelPrefix)) =>
                  LET message == Head(backlog[q]).data IN
                  \/ /\ ListenerCallStarted(q)
                     /\ attempts'[Len(attempts')].phone_number =
                            Stripped(SubSeq(message, 5, Len(message)))
                     /\ SubSeq(attempts', 1, Len(attempts)) = attempts
                     /\ queue' = queue
                  \/ /\ TelUrlQueued(q)
                     /\ queue'[q] = Append(queue[q], ProcessTelUrl(message))
                     /\ attempts' = attempts
         ]_vars
    /\ [](\A i \in 1..Len(attempts) :
            (attempts[i].alive /\ attempts[i].origin = "listener") =>
                ENABLED CallDone(i, "success"))

\* C23 witness: two connections were accepted, tel:5 before tel:- ; the call
\* thread for 5 was started before the thread for the empty number, both run,
\* and a third connection waits
C23_Witness ==
    /\ Len(attempts) = 2
    /\ attempts[1].phone_number = <<"5">> /\ attempts[2].phone_number = <<>>
    /\ attempts[1].alive /\ attempts[2].alive
    /\ attempts[1].origin = "listener" /\ attempts[2].origin = "listener"
    /\ \E q \in Procs : backlog[q] # <<>>

(***************************************************************************)
(* Properties of a tel: URI on its way through the processes.              *)
(***************************************************************************)
\* C24: the remove_file of try_connect_to_primary only deletes a file no live
\* listener is bound to: in the step in which a process removes the socket
\* file, no process is listening on that file
C24_RemovesOnlyStaleFile ==
    [][\A p \in Procs :
          (pc[p] = "probe_remove" /\ Moves(p)) => ~LiveListener
      ]_vars

\* the tel: URI for the number 5 that secondary p has written waits at the
\* listener of q
ForwardPending(p, q) ==
    \E k \in 1..Len(backlog[q]) :
        /\ backlog[q][k].from = p
        /\ backlog[q][k].data = Tel5
        /\ backlog[q][k].eof

\* C25: a tel: URI with a number that a secondary has written to the socket
\* is not lost: while it waits at the primary's listener, the primary will
\* start a call thread for the number or hold the number in its state's
\* phone_number, unless the primary ends first
C25_ForwardedCallHappens ==
    \A p \in Procs : \A q \in Procs :
        (ForwardPending(p, q) /\ pc[p] = "exited" /\ sent[p] = <<Tel5>>)
            ~> \/ pc[q] # "ui"
               \/ \E i \in 1..Len(attempts) :
                     attempts[i].proc = q /\ attempts[i].phone_number = <<"5">>
               \/ data[q].phone_number = <<"5">>


(***************************************************************************)
(* A tel: argument on its way from a secondary's main to the number the    *)
(* primary calls (SpecForward).                                            *)
(***************************************************************************)
UpperTel == <<"T", "E", "L", ":">>
\* tel: arguments of a secondary: the URIs of TelUris and also + in the
\* alphabet, in either case of the scheme, and a number that itself reads
\* tel:5
TelArgs ==
    TelUris
        \cup {TelPrefix \o [i \in 1..n |-> t[i]] :
                 n \in 1..MaxLen, t \in [1..MaxLen -> {"+", "5", "-", ")"}]}
        \cup {UpperTel \o SplitAt4Tail(u) : u \in TelUris}
        \cup {TelPrefix \o Tel5}

NothingForwarded == [main |-> <<>>, url |-> <<>>, listener |-> <<>>, ui |-> <<>>]

InitForward ==
    /\ sockFile = <<>>
    /\ prefsFile = <<>>
    /\ NoneStarted
    /\ fnIn \in TelArgs
    /\ fnOut = NothingForwarded

\* the secondary's main: argument scan, then the url it writes to the primary
MainForwards ==
    /\ fnOut.main = <<>>
    /\ ScanArgs(<<fnIn>>).has_tel_url
    /\ fnOut' = [fnOut EXCEPT
                    !.main = <<ScanArgs(<<fnIn>>).tel_number>>,
                    !.url = <<ForwardUrl(ScanArgs(<<fnIn>>).tel_number)>>]
    /\ UNCHANGED <<sockFile, prefsFile, mainVars, backlog, lstVars, uiVars,
                   attempts, fnIn>>

\* the primary's listener thread reads the url: clean_number, the number
\* make_direct_call is given
ListenerReceives ==
    /\ fnOut.url # <<>>
    /\ fnOut.listener = <<>>
    /\ Utf8Valid(fnOut.url[1]) /\ IsCallRequest(fnOut.url[1])
    /\ fnOut' = [fnOut EXCEPT !.listener = <<ListenerNormalize(fnOut.url[1])>>]
    /\ UNCHANGED <<sockFile, prefsFile, mainVars, backlog, lstVars, uiVars,
                   attempts, fnIn>>

\* the primary's listener handed the message over unchanged: the
\* PROCESS_TEL_URL handler's clean_number, stored in data.phone_number for
\* MAKE_CALL
HandlerReceives ==
    /\ fnOut.url # <<>>
    /\ fnOut.ui = <<>>
    /\ Utf8Valid(fnOut.url[1]) /\ IsCallRequest(fnOut.url[1])
    /\ StartsWith(fnOut.url[1], TelPrefix)
    /\ fnOut' = [fnOut EXCEPT !.ui = <<UiNormalize(fnOut.url[1])>>]
    /\ UNCHANGED <<sockFile, prefsFile, mainVars, backlog, lstVars, uiVars,
                   attempts, fnIn>>

NextForward == MainForwards \/ ListenerReceives \/ HandlerReceives

SpecForward == InitForward /\ [][NextForward]_vars

\* C26: the number the primary calls for a forwarded argument, whether its
\* listener or its PROCESS_TEL_URL handler normalized the forwarded url, is
\* the number the secondary got by normalizing the argument once, which is
\* the argument without its scheme and without any - space ( )
C26_ForwardPreservesNumber ==
    \A site \in {"listener", "ui"} :
        fnOut[site] # <<>> =>
            /\ fnOut[site][1] = fnOut.main[1]
            /\ fnOut[site][1] = Stripped(SplitAt4Tail(fnIn))

\* C26 witness: the example argument, its scheme in capitals, went through
\* the secondary and both normalizations of the primary
C26_Witness ==
    /\ fnIn = UpperTel \o SplitAt4Tail(ExampleUri)
    /\ fnOut.main = <<ExampleNumber>>
    /\ fnOut.url = <<TelPrefix \o ExampleNumber>>
    /\ fnOut.listener = <<ExampleNumber>>
    /\ fnOut.ui = <<ExampleNumber>>

(***************************************************************************)
(* One tel: URI in the session (SpecOneUri): one process is started with   *)
(* tel:5, the user changes settings at the windows but places no call, and *)
(* the call threads are still at their GET, so that attempts holds every   *)
(* attempt that was started.                                               *)
(***************************************************************************)
\* a process is started while at most one other is running; with a tel:
\* argument only when no other process was
LaunchOneUri(p, a) ==
    /\ a \in {<<>>, <<Tel5>>}
    /\ a # <<>> => \A r \in Procs : args[r] = <<>>
    /\ Cardinality({r \in Procs : pc[r] \notin {"off", "exited"}}) <= 1
    /\ Launch(p, a)

\* the user fills in a setting at the window of a primary
TypeSetting(p, f, v) ==
    /\ is_primary[p]
    /\ v # <<>>
    /\ EditField(p, f, v)

NextOneUri ==
    \/ \E p \in Procs, a \in {<<>>, <<Tel5>>} : LaunchOneUri(p, a)
    \/ \E p \in Procs : ProbeExists(p)
    \/ \E p \in Procs : ProbeConnect(p)
    \/ \E p \in Procs : ProbeWrite(p)
    \/ \E p \in Procs : ProbeRemove(p)
    \/ \E p \in Procs : FwdConnect(p)
    \/ \E p \in Procs : FwdWrite(p)
    \/ \E p \in Procs : SpawnInstance(p)
    \/ \E p \in Procs : RetryConnect(p)
    \/ \E p \in Procs : RetryWrite(p)
    \/ \E p \in Procs : LoadForTel(p)
    \/ \E p \in Procs : MainReturn(p)
    \/ \E p \in Procs : LaunchUi(p)
    \/ \E p \in Procs : Quit(p)
    \/ \E p \in Procs : TimerFire(p)
    \/ \E p \in Procs : HandleAppInitialized(p)
    \/ \E p \in Procs : HandleProcessTelUrl(p)
    \/ \E p \in Procs : HandleMakeCall(p)
    \/ \E p \in Procs : ListenerBind(p)
    \/ \E p \in Procs : ListenerServe(p)
    \/ \E p \in Procs : ListenerAcceptError(p)
    \/ \E p \in Procs, f \in {"domain", "extension"} :
          \E v \in Typed(f) : TypeSetting(p, f, v)

SpecOneUri == Init /\ [][NextOneUri]_vars

\* C27: the one tel: URI of the session results in at most one call attempt
\* over all processes, whichever way it takes: called by the process it was
\* given to, or forwarded and called by the primary's listener, or forwarded,
\* handed to PROCESS_TEL_URL and called by MAKE_CALL
C27_AtMostOneAttempt ==
    /\ Len(attempts) <= 1
    /\ \A p \in Procs :
          (attempts # <<>> /\ attempts[1].origin = "main") => sent[p] = <<>>

\* C27 witness: the process given tel:5 forwarded it and is gone, and the
\* primary's MAKE_CALL, submitted by the PROCESS_TEL_URL handler, started
\* the one attempt
C27_Witness ==
    \E p \in Procs : \E q \in Procs \ {p} :
        /\ args[p] = <<Tel5>> /\ sent[p] = <<Tel5>> /\ pc[p] = "exited"
        /\ Len(attempts) = 1
        /\ attempts[1].proc = q /\ attempts[1].origin = "ui"
        /\ attempts[1].phone_number = <<"5">>
        /\ queue[q] = <<>>

\* C28: a process started with a tel: argument that goes on to show its
\* window, because it neither forwarded the number nor called it, carries
\* the normalized number into the window: the UI's phone_number, or the
\* delegate's phone_number for the auto-call of APP_INITIALIZED, holds it
C28_NumberCarriedIntoUi ==
    [][\A p \in Procs :
          (has_tel_url[p] /\ pc[p] = "launch" /\ pc'[p] = "ui") =>
              \/ data'[p].phone_number = tel_number[p]
              \/ /\ delegate'[p].auto_call
                 /\ delegate'[p].phone_number = tel_number[p]
      ]_vars

=============================================================================
